---- MODULE Spec2Model ----
(***************************************************************************)
(* soopervisor: export of a pipeline's task graph to AWS Batch             *)
(* (src/soopervisor/aws/batch.py) and to Airflow                           *)
(* (src/soopervisor/airflow/export.py).                                    *)
(*                                                                         *)
(* Four specifications share the variables below:                          *)
(*   SpecSubmit    a direct call of submit_dag(tasks, ...) on any ordered  *)
(*                 mapping name -> upstream list;                          *)
(*   Spec          one export run: validation, load_tasks, build,          *)
(*                 submit_dag (AWS Batch) or the source copy (Airflow);    *)
(*   SpecValidate  AirflowExporter._validate on tasks with File and        *)
(*                 MetaProduct products;                                   *)
(*   SpecDeclare   _dag_to_airflow on an acyclic graph.                    *)
(***************************************************************************)
EXTENDS Integers, Sequences, FiniteSets, TLC

\* Largest number of tasks given to submit_dag, to _validate or to
\* _dag_to_airflow when each is run alone.
MaxNodes == 3

\* Largest number of tasks of the pipeline in a whole export run, where the
\* graph varies together with each task's status and product.
MaxRunNodes == 2

\* Task names, sorted; a graph of n tasks uses the first n.
Pool == <<"a", "b", "c", "d", "e">>

Names == {Pool[k] : k \in 1..MaxNodes}

\* The rank of a task name when names are sorted.
NameIndex(n) == CHOOSE k \in 1..Len(Pool) : Pool[k] = n

Range(s) == {s[k] : k \in DOMAIN s}

\* The names of set S as a list in declaration order.
RECURSIVE ListOf(_, _)
ListOf(S, k) ==
    IF k > Len(Pool) THEN <<>>
    ELSE (IF Pool[k] \in S THEN <<Pool[k]>> ELSE <<>>) \o ListOf(S, k + 1)

AsList(S) == ListOf(S, 1)

\* Python's None.
None == "None"

VARIABLES
    backend,          \* the exporter in use: "aws-batch" or "airflow"
    mode,             \* the export mode
    dag,              \* the pipeline's task names, in declaration order
    upstream,         \* task name -> list of upstream task names
    needs_execution,  \* task name -> whether the task is outdated
    product,          \* task name -> list of product paths (File: one; MetaProduct: several)
    pc,               \* position of the run
    tasks,            \* submit_dag's tasks: list of [name, upstream], the dict's items() order
    remote_name,      \* image reference returned by docker.build
    job_defs,         \* backend: registered job definitions
    jd,               \* response of register_job_definition
    out,              \* response of pkg.runs_update
    i,                \* index of the loop over tasks.items()
    job_ids,          \* submit_dag's job_ids dict
    jobs,             \* backend: submit_job calls accepted, in order
    printed,          \* task names printed by cmdr.print
    raised,           \* the exception that ended the run
    products_invalid, \* _validate's products_invalid
    copied,           \* AirflowExporter._submit copied the project
    af_tasks,         \* Airflow DAG: task ids added, in order
    af_edges          \* Airflow DAG: set_upstream calls <<task, upstream>>, in order

vars == <<backend, mode, dag, upstream, needs_execution, product, pc, tasks,
          remote_name, job_defs, jd, out, i, job_ids, jobs, printed, raised,
          products_invalid, copied, af_tasks, af_edges>>

graphVars == <<backend, mode, dag, upstream, needs_execution, product>>

\* The position of a task in the graph's insertion order.
Pos(n) == CHOOSE k \in DOMAIN dag : dag[k] = n

airflowVars == <<products_invalid, copied, af_tasks, af_edges>>

NoException == [type |-> None, arg |-> None]

Exception(type, arg) == [type |-> type, arg |-> arg]

(***************************************************************************)
(* submit_dag (aws/batch.py)                                               *)
(***************************************************************************)

\* The CLI arguments load_tasks returns; cli_args[1] is the entry point.
CliArgs == <<"--entry-point", "pipeline.yaml">>

JobQueue == "your-job-queue"

TaskId(name) == "task-id-" \o name

GithubNumber == "42"

\* The responses of pkg.runs_update: nothing (run tracking off), task ids
\* without a github number, task ids with one.
NoRun == [tracked |-> FALSE, github_number |-> None]

RunsUpdateResponses ==
    {NoRun, [tracked |-> TRUE, github_number |-> None],
            [tracked |-> TRUE, github_number |-> GithubNumber]}

\* ploomber_task, lines 132-151.
PloomberTask(name, o) ==
    IF o.tracked
    THEN LET ploomber_task ==
                 <<"python", "-m", "ploomber.cli.task", name, "--task-id", TaskId(name)>>
         IN  IF o.github_number # None
             THEN ploomber_task \o (ploomber_task \o <<"--github-number", o.github_number>>)
             ELSE ploomber_task
    ELSE <<"ploomber", "task", name>>

\* The names the dependsOn comprehension cannot find in job_ids, lines 157-159.
MissingKeys(ups, ids) == {k \in 1..Len(ups) : ups[k] \notin DOMAIN ids}

\* A dependsOn that loses the last upstream of the list.
DependsOnDropsLast(ups, ids) == [k \in 1..(Len(ups) - 1) |-> ids[ups[k]]]

\* dependsOn=[{"jobId": job_ids[name]} for name in upstream], lines 157-159.
DependsOn(ups, ids) == [k \in 1..Len(ups) |-> ids[ups[k]]]

\* An assignment that starts the dict anew with the one entry.
SetItemAlone(ids, name, value) == [n \in {name} |-> value]

\* job_ids[name] = value, line 162.
SetItem(ids, name, value) ==
    [n \in DOMAIN ids \cup {name} |-> IF n = name THEN value ELSE ids[n]]

\* The backend assigns each accepted job the next identifier.
NextJobId == 100 + Len(jobs) + 1

\* A registration without `container_properties['image'] = remote_name`: the
\* job definition keeps the image of the configuration.
RegisterJobDefinitionConfigImage ==
    /\ pc = "register"
    /\ job_defs' = Append(job_defs, [jobDefinitionName |-> "pkg", image |-> "cfg-image"])
    /\ jd' = [jobDefinitionArn |-> "arn-" \o "pkg"]
    /\ job_ids' = <<>>
    /\ pc' = "runs_update"
    /\ UNCHANGED <<graphVars, tasks, remote_name, out, i, jobs, printed, raised, airflowVars>>

\* boto3.client and client.register_job_definition succeed, lines 112-121.
RegisterJobDefinition ==
    /\ pc = "register"
    /\ job_defs' = Append(job_defs, [jobDefinitionName |-> "pkg", image |-> remote_name])
    /\ jd' = [jobDefinitionArn |-> "arn-" \o "pkg"]
    /\ job_ids' = <<>>
    /\ pc' = "runs_update"
    /\ UNCHANGED <<graphVars, tasks, remote_name, out, i, jobs, printed, raised, airflowVars>>

\* client.register_job_definition raises, line 116.
RegisterJobDefinitionFails ==
    /\ pc = "register"
    /\ raised' = Exception("ClientError", "register_job_definition")
    /\ pc' = "failed"
    /\ UNCHANGED <<graphVars, tasks, remote_name, job_defs, jd, out, i, job_ids, jobs,
                   printed, airflowVars>>

\* pkg.runs_update, lines 126-128.
RunsUpdate ==
    /\ pc = "runs_update"
    /\ \E o \in RunsUpdateResponses : out' = o
    /\ i' = 1
    /\ pc' = "loop"
    /\ UNCHANGED <<graphVars, tasks, remote_name, job_defs, jd, job_ids, jobs, printed,
                   raised, airflowVars>>

\* The iteration with job_ids.get(name) in place of job_ids[name]: a missing
\* upstream gives no KeyError and the job is submitted with an empty id (0).
SubmitJobUnchecked ==
    /\ pc = "loop"
    /\ i <= Len(tasks)
    /\ LET name == tasks[i].name
           ups == tasks[i].upstream
       IN  /\ jobs' = Append(jobs, [jobName |-> name,
                                    jobQueue |-> JobQueue,
                                    jobDefinition |-> jd.jobDefinitionArn,
                                    dependsOn |-> [k \in 1..Len(ups) |->
                                        IF ups[k] \in DOMAIN job_ids
                                        THEN job_ids[ups[k]] ELSE 0],
                                    command |-> PloomberTask(name, out) \o CliArgs,
                                    jobId |-> NextJobId])
           /\ job_ids' = SetItem(job_ids, name, NextJobId)
           /\ printed' = Append(printed, name)
           /\ i' = i + 1
    /\ UNCHANGED <<pc, raised, graphVars, tasks, remote_name, job_defs, jd, out, airflowVars>>

\* The iteration with the upstream list taken from the whole pipeline instead
\* of tasks: an upstream task that was left out has no id and raises KeyError.
SubmitJobWholeUpstream ==
    /\ pc = "loop"
    /\ i <= Len(tasks)
    /\ LET name == tasks[i].name
           ups == IF name \in DOMAIN upstream THEN upstream[name] ELSE tasks[i].upstream
           missing == MissingKeys(ups, job_ids)
       IN  IF missing # {}
           THEN /\ raised' = Exception("KeyError", ups[CHOOSE k \in missing :
                                                       \A m \in missing : k <= m])
                /\ pc' = "failed"
                /\ UNCHANGED <<i, job_ids, jobs, printed>>
           ELSE /\ jobs' = Append(jobs, [jobName |-> name,
                                         jobQueue |-> JobQueue,
                                         jobDefinition |-> jd.jobDefinitionArn,
                                         dependsOn |-> DependsOn(ups, job_ids),
                                         command |-> PloomberTask(name, out) \o CliArgs,
                                         jobId |-> NextJobId])
                /\ job_ids' = SetItem(job_ids, name, NextJobId)
                /\ printed' = Append(printed, name)
                /\ i' = i + 1
                /\ UNCHANGED <<pc, raised>>
    /\ UNCHANGED <<graphVars, tasks, remote_name, job_defs, jd, out, airflowVars>>

\* One iteration of the loop over tasks.items() in which the backend accepts
\* the job, or the dependsOn comprehension raises KeyError; lines 130-164.
SubmitJob ==
    /\ pc = "loop"
    /\ i <= Len(tasks)
    /\ LET name == tasks[i].name
           ups == tasks[i].upstream
           missing == MissingKeys(ups, job_ids)
       IN  IF missing # {}
           THEN /\ raised' = Exception("KeyError", ups[CHOOSE k \in missing :
                                                       \A m \in missing : k <= m])
                /\ pc' = "failed"
                /\ UNCHANGED <<i, job_ids, jobs, printed>>
           ELSE /\ jobs' = Append(jobs, [jobName |-> name,
                                         jobQueue |-> JobQueue,
                                         jobDefinition |-> jd.jobDefinitionArn,
                                         dependsOn |-> DependsOn(ups, job_ids),
                                         command |-> PloomberTask(name, out) \o CliArgs,
                                         jobId |-> NextJobId])
                /\ job_ids' = SetItem(job_ids, name, NextJobId)
                /\ printed' = Append(printed, name)
                /\ i' = i + 1
                /\ UNCHANGED <<pc, raised>>
    /\ UNCHANGED <<graphVars, tasks, remote_name, job_defs, jd, out, airflowVars>>

\* A failed submit_job that is caught and logged: the loop goes on with the
\* next task.
SubmitJobFailsAndContinues ==
    /\ pc = "loop"
    /\ i <= Len(tasks)
    /\ MissingKeys(tasks[i].upstream, job_ids) = {}
    /\ raised' = Exception("ClientError", "submit_job")
    /\ i' = i + 1
    /\ UNCHANGED <<graphVars, pc, tasks, remote_name, job_defs, jd, out, job_ids, jobs,
                   printed, airflowVars>>

\* A failed submit_job that is tried again: the backend had accepted the
\* job before the call failed and accepts the second call too.
SubmitJobFailsAndRetries ==
    /\ pc = "loop"
    /\ i <= Len(tasks)
    /\ MissingKeys(tasks[i].upstream, job_ids) = {}
    /\ LET name == tasks[i].name
           job == [jobName |-> name,
                   jobQueue |-> JobQueue,
                   jobDefinition |-> jd.jobDefinitionArn,
                   dependsOn |-> DependsOn(tasks[i].upstream, job_ids),
                   command |-> PloomberTask(name, out) \o CliArgs,
                   jobId |-> NextJobId]
       IN  /\ jobs' = jobs \o <<job, [job EXCEPT !.jobId = NextJobId + 1]>>
           /\ job_ids' = SetItem(job_ids, name, NextJobId + 1)
           /\ printed' = Append(printed, name)
           /\ i' = i + 1
    /\ UNCHANGED <<graphVars, pc, raised, tasks, remote_name, job_defs, jd, out, airflowVars>>

\* One iteration of the loop in which client.submit_job raises, line 153:
\* the exception leaves submit_dag, which catches nothing.
SubmitJobFails ==
    /\ pc = "loop"
    /\ i <= Len(tasks)
    /\ MissingKeys(tasks[i].upstream, job_ids) = {}
    /\ raised' = Exception("ClientError", "submit_job")
    /\ pc' = "failed"
    /\ UNCHANGED <<graphVars, tasks, remote_name, job_defs, jd, out, i, job_ids, jobs,
                   printed, airflowVars>>

\* The loop is exhausted: submit_dag returns (None), line 164.
SubmitDagReturns ==
    /\ pc = "loop"
    /\ i > Len(tasks)
    /\ pc' = "returned"
    /\ UNCHANGED <<graphVars, tasks, remote_name, job_defs, jd, out, i, job_ids, jobs,
                   printed, raised, airflowVars>>

(***************************************************************************)
(* SpecSubmit: submit_dag called on any ordered mapping of at most         *)
(* MaxNodes names to upstream lists over Names.                            *)
(***************************************************************************)

\* The mapping whose keys are the first n names, the upstream list of the
\* k-th being the names of f[k].
TaskMapping(n, f) == [k \in 1..n |-> [name |-> Pool[k], upstream |-> AsList(f[k])]]

\* Each upstream list is a list of other names, which need not be keys and
\* need not come earlier.
UpstreamChoices(n) ==
    {f \in [1..n -> SUBSET Names] : \A k \in 1..n : Pool[k] \notin f[k]}

NoGraph ==
    /\ backend = "aws-batch"
    /\ mode = None
    /\ dag = <<>>
    /\ upstream = <<>>
    /\ needs_execution = <<>>
    /\ product = <<>>

Idle ==
    /\ remote_name = None
    /\ job_defs = <<>>
    /\ jd = [jobDefinitionArn |-> None]
    /\ out = NoRun
    /\ i = 0
    /\ job_ids = <<>>
    /\ jobs = <<>>
    /\ printed = <<>>
    /\ raised = NoException
    /\ products_invalid = <<>>
    /\ copied = FALSE
    /\ af_tasks = <<>>
    /\ af_edges = <<>>

InitSubmit ==
    /\ NoGraph
    /\ Idle
    /\ \E n \in 0..MaxNodes : \E f \in UpstreamChoices(n) : tasks = TaskMapping(n, f)
    /\ pc = "register"

NextSubmit ==
    \/ RegisterJobDefinition
    \/ RegisterJobDefinitionFails
    \/ RunsUpdate
    \/ SubmitJob
    \/ SubmitJobFails
    \/ SubmitDagReturns

SpecSubmit == InitSubmit /\ [][NextSubmit]_vars

(***************************************************************************)
(* Product paths and AirflowExporter._validate (airflow/export.py)         *)
(***************************************************************************)

\* A string is a list of characters; a path is a list of components, each a
\* string, and is absolute or relative to the working directory.
Slash == <<"/">>

DotDot == <<".", ".">>

\* project_root = Path('.').resolve(): the working directory, /w/p.
ProjectRoot == << <<"w">>, <<"p">> >>

RelPath(parts) == [absolute |-> FALSE, parts |-> parts]

AbsPath(parts) == [absolute |-> TRUE, parts |-> parts]

\* o/d, relative: resolves to /w/p/o/d, under the project root.
InsideRelative == RelPath(<< <<"o">>, <<"d">> >>)

\* /w/p/../o: resolves to /w/o, outside the project root.
ViaParent == AbsPath(<< <<"w">>, <<"p">>, DotDot, <<"o">> >>)

\* /w/p2/o: in a sibling directory of the project root.
Sibling == AbsPath(<< <<"w">>, <<"p", "2">>, <<"o">> >>)

\* /d/o: outside the project root.
Outside == AbsPath(<< <<"d">>, <<"o">> >>)

RECURSIVE Join(_)
Join(parts) ==
    IF parts = <<>> THEN <<>>
    ELSE IF Len(parts) = 1 THEN parts[1]
    ELSE parts[1] \o Slash \o Join(Tail(parts))

\* str(product): the path as written.
PathStr(path) ==
    IF path.absolute THEN Slash \o Join(path.parts) ELSE Join(path.parts)

\* Path.resolve() on the components of an absolute path: ".." drops the
\* component before it (no symbolic links in the model).
RECURSIVE Normalize(_, _)
Normalize(done, parts) ==
    IF parts = <<>> THEN done
    ELSE IF parts[1] = DotDot
         THEN Normalize(IF done = <<>> THEN done ELSE SubSeq(done, 1, Len(done) - 1),
                        Tail(parts))
         ELSE Normalize(Append(done, parts[1]), Tail(parts))

\* resolve_product, lines 90-93.
ResolveProduct(path) ==
    Slash \o Join(Normalize(<<>>, IF path.absolute THEN path.parts
                                  ELSE ProjectRoot \o path.parts))

\* str.startswith.
StartsWith(str, prefix) ==
    /\ Len(prefix) <= Len(str)
    /\ SubSeq(str, 1, Len(prefix)) = prefix

\* The condition of the products_invalid comprehension, line 99.
UnderProjectRoot(path) == StartsWith(ResolveProduct(path), Slash \o Join(ProjectRoot))

\* The products of every task, MetaProducts unpacked, lines 83-85.
RECURSIVE Products(_)
Products(names) ==
    IF names = <<>> THEN <<>> ELSE product[names[1]] \o Products(Tail(names))

\* A validation that stops at the first product under the project root.
RECURSIVE FirstInvalid(_)
FirstInvalid(ps) ==
    IF ps = <<>> THEN <<>>
    ELSE IF UnderProjectRoot(ps[1]) THEN <<PathStr(ps[1])>> ELSE FirstInvalid(Tail(ps))

\* products_invalid, lines 95-100.
RECURSIVE ProductsInvalid(_)
ProductsInvalid(ps) ==
    IF ps = <<>> THEN <<>>
    ELSE (IF UnderProjectRoot(ps[1]) THEN <<PathStr(ps[1])>> ELSE <<>>)
         \o ProductsInvalid(Tail(ps))

\* A validation that looks only at the tasks that need execution.
AirflowValidateOutdatedOnly ==
    /\ pc = "validate"
    /\ backend = "airflow"
    /\ LET invalid == ProductsInvalid(Products(SelectSeq(dag,
                          LAMBDA n : needs_execution[n])))
       IN  /\ products_invalid' = invalid
           /\ IF invalid # <<>>
              THEN raised' = Exception("ValueError", "products_invalid") /\ pc' = "failed"
              ELSE raised' = raised /\ pc' = "export"
    /\ UNCHANGED <<graphVars, tasks, remote_name, job_defs, jd, out, i, job_ids, jobs,
                   printed, copied, af_tasks, af_edges>>

\* AirflowExporter._validate, lines 59-115: the DAG is loaded whole and every
\* product under the project root is listed in one ValueError.
AirflowValidate ==
    /\ pc = "validate"
    /\ backend = "airflow"
    /\ LET invalid == ProductsInvalid(Products(dag))
       IN  /\ products_invalid' = invalid
           /\ IF invalid # <<>>
              THEN raised' = Exception("ValueError", "products_invalid") /\ pc' = "failed"
              ELSE raised' = raised /\ pc' = "export"
    /\ UNCHANGED <<graphVars, tasks, remote_name, job_defs, jd, out, i, job_ids, jobs,
                   printed, copied, af_tasks, af_edges>>

\* AWSBatchExporter._validate, aws/batch.py lines 46-48: pass.
BatchValidate ==
    /\ pc = "validate"
    /\ backend = "aws-batch"
    /\ pc' = "export"
    /\ UNCHANGED <<graphVars, tasks, remote_name, job_defs, jd, out, i, job_ids, jobs,
                   printed, raised, airflowVars>>

\* AirflowExporter._submit, lines 130-156: the project is copied to the
\* environment folder; nothing is submitted to a backend.
AirflowSubmit ==
    /\ pc = "export"
    /\ backend = "airflow"
    /\ copied' = TRUE
    /\ pc' = "done"
    /\ UNCHANGED <<graphVars, tasks, remote_name, job_defs, jd, out, i, job_ids, jobs,
                   printed, raised, products_invalid, af_tasks, af_edges>>

(***************************************************************************)
(* Graph model and incremental filter (commons.load_tasks)                 *)
(***************************************************************************)

Modes == {"all", "incremental"}

\* A filter that also takes the tasks downstream of a task that needs
\* execution.
FilterWithDownstream(m) ==
    IF m = "all" THEN Range(dag)
    ELSE {n \in Range(dag) :
            needs_execution[n] \/ \E u \in Range(upstream[n]) : needs_execution[u]}

\* filter(graph, mode): every task, or the tasks that need execution.
Filter(m) ==
    IF m = "all" THEN Range(dag) ELSE {n \in Range(dag) : needs_execution[n]}

\* restrict(subset): the upstream list of n without the tasks left out.
Restrict(n, subset) == SelectSeq(upstream[n], LAMBDA u : u \in subset)

\* Kahn's algorithm with the ties broken by name.
RECURSIVE KahnByName(_, _, _)
KahnByName(order, remaining, subset) ==
    LET ready == {n \in remaining : Range(Restrict(n, subset)) \cap remaining = {}}
    IN  IF ready = {} THEN order
        ELSE LET n == CHOOSE r \in ready : \A q \in ready : NameIndex(r) <= NameIndex(q)
             IN  KahnByName(Append(order, n), remaining \ {n}, subset)

\* Kahn's algorithm on the tasks of `remaining`; among the tasks with no
\* pending upstream the one declared first is taken. Stops early when no
\* task is ready.
RECURSIVE Kahn(_, _, _)
Kahn(order, remaining, subset) ==
    LET ready == {n \in remaining : Range(Restrict(n, subset)) \cap remaining = {}}
    IN  IF ready = {} THEN order
        ELSE LET n == CHOOSE r \in ready : \A q \in ready : Pos(r) <= Pos(q)
             IN  Kahn(Append(order, n), remaining \ {n}, subset)

TopologicalOrder(subset) == Kahn(<<>>, subset, subset)

\* A load_tasks that hands over the tasks it could order without looking
\* whether any is left.
LoadTasksUnchecked ==
    /\ pc = "export"
    /\ backend = "aws-batch"
    /\ LET subset == Filter(mode)
           order == TopologicalOrder(subset)
       IN  tasks' = [k \in 1..Len(order) |->
                        [name |-> order[k], upstream |-> Restrict(order[k], subset)]]
    /\ pc' = "loaded"
    /\ UNCHANGED <<graphVars, remote_name, job_defs, jd, out, i, job_ids, jobs, printed,
                   raised, airflowVars>>

\* load_tasks: the tasks to submit, in topological order, each with its
\* upstream tasks among them; an error when the order cannot be completed.
LoadTasks ==
    /\ pc = "export"
    /\ backend = "aws-batch"
    /\ LET subset == Filter(mode)
           order == TopologicalOrder(subset)
       IN  IF Len(order) = Cardinality(subset)
           THEN /\ tasks' = [k \in 1..Len(order) |->
                                [name |-> order[k], upstream |-> Restrict(order[k], subset)]]
                /\ pc' = "loaded"
                /\ UNCHANGED raised
           ELSE /\ raised' = Exception("GraphError", "no progress")
                /\ pc' = "failed"
                /\ UNCHANGED tasks
    /\ UNCHANGED <<graphVars, remote_name, job_defs, jd, out, i, job_ids, jobs, printed,
                   airflowVars>>

(***************************************************************************)
(* AWSBatchExporter._export (aws/batch.py)                                 *)
(***************************************************************************)

\* `if not tasks: raise CommanderStop(...)`, lines 75-78.
StopNoTasks ==
    /\ pc = "loaded"
    /\ tasks = <<>>
    /\ raised' = Exception("CommanderStop", mode)
    /\ pc' = "stopped"
    /\ UNCHANGED <<graphVars, tasks, remote_name, job_defs, jd, out, i, job_ids, jobs,
                   printed, airflowVars>>

\* A build that does not look at tasks first.
DockerBuildUnguarded ==
    /\ pc = "loaded"
    /\ remote_name' = "repository/pkg:latest"
    /\ pc' = "register"
    /\ UNCHANGED <<graphVars, tasks, job_defs, jd, out, i, job_ids, jobs, printed, raised,
                   airflowVars>>

\* docker.build succeeds, lines 80-88; reached only with tasks to submit.
DockerBuild ==
    /\ pc = "loaded"
    /\ tasks # <<>>
    /\ remote_name' = "repository/pkg:latest"
    /\ pc' = "register"
    /\ UNCHANGED <<graphVars, tasks, job_defs, jd, out, i, job_ids, jobs, printed, raised,
                   airflowVars>>

\* docker.build raises, line 80.
DockerBuildFails ==
    /\ pc = "loaded"
    /\ tasks # <<>>
    /\ raised' = Exception("BuildError", "docker.build")
    /\ pc' = "failed"
    /\ UNCHANGED <<graphVars, tasks, remote_name, job_defs, jd, out, i, job_ids, jobs,
                   printed, airflowVars>>

\* cmdr.success('Done. Submitted to AWS Batch'), line 99.
ExportDone ==
    /\ pc = "returned"
    /\ pc' = "done"
    /\ UNCHANGED <<graphVars, tasks, remote_name, job_defs, jd, out, i, job_ids, jobs,
                   printed, raised, airflowVars>>

(***************************************************************************)
(* Spec: one export run, from validation to the end                        *)
(***************************************************************************)

\* The first n task names.
First(n) == {Pool[k] : k \in 1..n}

\* Whether the tasks of `remaining` can all be ordered after their upstream
\* tasks under f: whether the relation is acyclic.
RECURSIVE Sources(_, _)
Sources(f, remaining) ==
    LET ready == {n \in remaining : f[n] \cap remaining = {}}
    IN  IF remaining = {} THEN TRUE
        ELSE IF ready = {} THEN FALSE
        ELSE Sources(f, remaining \ ready)

\* The upstream relations of a pipeline of n tasks: each task has other
\* tasks of the pipeline as upstream, declared before it or after, and the
\* relation is acyclic.
UpstreamRelations(n) ==
    {f \in [First(n) -> SUBSET First(n)] :
        /\ \A m \in First(n) : m \notin f[m]
        /\ Sources(f, First(n))}

\* The pipeline of n tasks with upstream relation f.
InitGraph(n, f) ==
    /\ dag = SubSeq(Pool, 1, n)
    /\ upstream = [m \in First(n) |-> AsList(f[m])]

\* In a run each task has one File product, under the project root or not.
RunProducts == {<<InsideRelative>>, <<Outside>>}

Init ==
    /\ backend \in {"aws-batch", "airflow"}
    /\ mode \in Modes
    /\ \E n \in 0..MaxRunNodes : \E f \in UpstreamRelations(n) : InitGraph(n, f)
    /\ needs_execution \in [Range(dag) -> BOOLEAN]
    /\ product \in [Range(dag) -> RunProducts]
    /\ tasks = <<>>
    /\ Idle
    /\ pc = "validate"

Next ==
    \/ AirflowValidate
    \/ BatchValidate
    \/ AirflowSubmit
    \/ LoadTasks
    \/ StopNoTasks
    \/ DockerBuild
    \/ DockerBuildFails
    \/ RegisterJobDefinition
    \/ RegisterJobDefinitionFails
    \/ RunsUpdate
    \/ SubmitJob
    \/ SubmitJobFails
    \/ SubmitDagReturns
    \/ ExportDone

Spec == Init /\ [][Next]_vars

\* The upstream relations of n tasks, acyclic or not.
AnyRelations(n) ==
    {f \in [First(n) -> SUBSET First(n)] : \A m \in First(n) : m \notin f[m]}

\* A run on a graph that need not be acyclic when the exporter is AWS Batch,
\* the one that orders the tasks itself and never looks at their products.
InitRun ==
    /\ backend \in {"aws-batch", "airflow"}
    /\ mode \in Modes
    /\ \E n \in 0..MaxRunNodes : \E f \in AnyRelations(n) :
           /\ (backend = "airflow") => Sources(f, First(n))
           /\ InitGraph(n, f)
    /\ needs_execution \in [Range(dag) -> BOOLEAN]
    /\ product \in [Range(dag) -> RunProducts]
    /\ (backend = "aws-batch") => (\A m \in Range(dag) : product[m] = <<Outside>>)
    /\ tasks = <<>>
    /\ Idle
    /\ pc = "validate"

\* The run is one sequential program: while it has a next step, it takes it.
FairRun == InitRun /\ [][Next]_vars /\ WF_vars(Next)

(***************************************************************************)
(* SpecValidate: AirflowExporter._validate alone, on tasks whose products  *)
(* are Files or MetaProducts of two Files                                  *)
(***************************************************************************)

\* /w/p/o, absolute: under the project root.
InsideAbsolute == AbsPath(<< <<"w">>, <<"p">>, <<"o">> >>)

ValidateProducts ==
    {<<q>> : q \in {InsideRelative, InsideAbsolute, ViaParent, Sibling, Outside}}
    \cup {<<q, r>> : q, r \in {InsideRelative, InsideAbsolute, Outside}}

InitValidate ==
    /\ backend = "airflow"
    /\ mode = None
    /\ \E n \in 0..MaxNodes : InitGraph(n, [m \in First(n) |-> {}])
    /\ needs_execution = [m \in Range(dag) |-> TRUE]
    /\ product \in [Range(dag) -> ValidateProducts]
    /\ tasks = <<>>
    /\ Idle
    /\ pc = "validate"

NextValidate == AirflowValidate

SpecValidate == InitValidate /\ [][NextValidate]_vars

\* The variable parts of the ValueError's message, lines 108-115: the
\* project root and the invalid products, one per line.
ValidationMessage == <<Slash \o Join(ProjectRoot)>> \o products_invalid

(***************************************************************************)
(* _dag_to_airflow (airflow/export.py) and SpecDeclare                     *)
(***************************************************************************)

declareFrame == <<graphVars, tasks, remote_name, job_defs, jd, out, job_ids, jobs,
                  printed, raised, products_invalid, copied>>

\* One iteration of the first loop, lines 204-214: BashOperator(task_id=
\* task_name, dag=dag_airflow) adds the task to the Airflow DAG.
AddOperator ==
    /\ pc = "declare_tasks"
    /\ i <= Len(dag)
    /\ af_tasks' = Append(af_tasks, dag[i])
    /\ i' = i + 1
    /\ UNCHANGED <<declareFrame, pc, af_edges>>

\* The first loop is exhausted; the second starts, line 216.
StartEdges ==
    /\ pc = "declare_tasks"
    /\ i > Len(dag)
    /\ i' = 1
    /\ pc' = "declare_edges"
    /\ UNCHANGED <<declareFrame, af_tasks, af_edges>>

\* An inner loop that sets only the first upstream of the task.
SetFirstUpstreamOnly(task, ups) ==
    IF ups = <<>> THEN <<>> ELSE << <<task, ups[1]>> >>

\* The inner loop, lines 220-221: one set_upstream per upstream of the task.
SetUpstream(task, ups) == [k \in 1..Len(ups) |-> <<task, ups[k]>>]

\* One iteration of the second loop, lines 216-221.
DeclareUpstream ==
    /\ pc = "declare_edges"
    /\ i <= Len(dag)
    /\ af_edges' = af_edges \o SetUpstream(dag[i], upstream[dag[i]])
    /\ i' = i + 1
    /\ UNCHANGED <<declareFrame, pc, af_tasks>>

\* return dag_airflow, line 223.
DagToAirflowReturns ==
    /\ pc = "declare_edges"
    /\ i > Len(dag)
    /\ pc' = "declared"
    /\ UNCHANGED <<declareFrame, i, af_tasks, af_edges>>

InitDeclare ==
    /\ backend = "airflow"
    /\ mode = None
    /\ \E n \in 0..MaxNodes : \E f \in UpstreamRelations(n) : InitGraph(n, f)
    /\ needs_execution = [m \in Range(dag) |-> TRUE]
    /\ product = [m \in Range(dag) |-> <<Outside>>]
    /\ tasks = <<>>
    /\ remote_name = None
    /\ job_defs = <<>>
    /\ jd = [jobDefinitionArn |-> None]
    /\ out = NoRun
    /\ i = 1
    /\ job_ids = <<>>
    /\ jobs = <<>>
    /\ printed = <<>>
    /\ raised = NoException
    /\ products_invalid = <<>>
    /\ copied = FALSE
    /\ af_tasks = <<>>
    /\ af_edges = <<>>
    /\ pc = "declare_tasks"

NextDeclare ==
    \/ AddOperator
    \/ StartEdges
    \/ DeclareUpstream
    \/ DagToAirflowReturns

SpecDeclare == InitDeclare /\ [][NextDeclare]_vars

(***************************************************************************)
(* SpecOrder: load_tasks in mode "all" on an acyclic graph whose tasks     *)
(* were inserted in any order; SpecFilter: load_tasks in either mode on an *)
(* acyclic graph of tasks that need execution or not                       *)
(***************************************************************************)

\* The orders in which the first n names can be inserted in the graph.
InsertionOrders(n) ==
    {s \in [1..n -> First(n)] : \A j, k \in 1..n : s[j] = s[k] => j = k}

\* A run about to call load_tasks: validated, nothing built or submitted.
LoadOnly ==
    /\ backend = "aws-batch"
    /\ product = [m \in Range(dag) |-> <<Outside>>]
    /\ tasks = <<>>
    /\ Idle
    /\ pc = "export"

InitOrder ==
    /\ mode = "all"
    /\ \E n \in 0..MaxNodes : \E f \in UpstreamRelations(n) : \E s \in InsertionOrders(n) :
           /\ dag = s
           /\ upstream = [m \in First(n) |-> AsList(f[m])]
    /\ needs_execution = [m \in Range(dag) |-> TRUE]
    /\ LoadOnly

NextOrder == LoadTasks

SpecOrder == InitOrder /\ [][NextOrder]_vars

InitFilter ==
    /\ mode \in Modes
    /\ \E n \in 0..MaxNodes : \E f \in UpstreamRelations(n) : InitGraph(n, f)
    /\ needs_execution \in [Range(dag) -> BOOLEAN]
    /\ LoadOnly

NextFilter == LoadTasks

SpecFilter == InitFilter /\ [][NextFilter]_vars

\* The names of the tasks client.submit_job was called for, in order: the
\* calls the backend accepted, line 153, and the call that raised, after
\* which submit_dag makes no other.
SubmitCalls ==
    [k \in DOMAIN jobs |-> jobs[k].jobName]
    \o (IF raised = Exception("ClientError", "submit_job") THEN <<tasks[i].name>> ELSE <<>>)

\* What a failed submit_dag hands its caller about the jobs already
\* submitted: the exception is the backend's own and holds no record of them
\* (job_ids is a local of the abandoned call); cmdr.print named each task
\* after its submission, line 164.
FailureReport == {[node_name |-> printed[k]] : k \in DOMAIN printed}

\* What submit_dag returns to its caller: the function has no return
\* statement, so the call evaluates to None, which is no mapping and holds no
\* (name, job id) item; _export ignores it, lines 90-97.
ReturnValue == [is_mapping |-> FALSE, items |-> {}]

(***************************************************************************)
(* Claims on submit_dag, checked under SpecSubmit                          *)
(***************************************************************************)

TaskNames == {tasks[k].name : k \in DOMAIN tasks}

UpstreamOf(n) == tasks[CHOOSE k \in DOMAIN tasks : tasks[k].name = n].upstream

InTasks(n) == n \in TaskNames

\* The upstream list of n restricted to the tasks being submitted.
RetainedUpstream(n) == SelectSeq(UpstreamOf(n), InTasks)

\* C1: the backend accepts a job for task N only after it accepted a job for
\* every upstream task of N that is among the submitted tasks, and that
\* upstream's id is in job_ids; every id of N's dependsOn is the id of a job
\* the backend returned earlier.
C1_SubmittedAfterUpstream ==
    \A k \in DOMAIN jobs :
        /\ \A u \in Range(RetainedUpstream(jobs[k].jobName)) :
               /\ \E j \in 1..(k - 1) : jobs[j].jobName = u
               /\ u \in DOMAIN job_ids
        /\ \A d \in Range(jobs[k].dependsOn) :
               \E j \in 1..(k - 1) : jobs[j].jobId = d

\* a, b<-a, c<-a, c<-b: all three submitted, a first, then b, then c.
C1_Witness ==
    /\ Len(tasks) = 3
    /\ tasks[2].upstream = <<"a">>
    /\ tasks[3].upstream = <<"a", "b">>
    /\ Len(jobs) = 3
    /\ jobs[1].jobName = "a" /\ jobs[2].jobName = "b" /\ jobs[3].jobName = "c"

\* C2: the dependsOn list of every submitted task N holds, for each upstream
\* task of N among the submitted tasks and in their order, the id the
\* backend returned for that upstream, and nothing else.
C2_DependsOnExact ==
    \A k \in DOMAIN jobs :
        LET ups == RetainedUpstream(jobs[k].jobName)
            deps == jobs[k].dependsOn
        IN  /\ Len(deps) = Len(ups)
            /\ \A m \in DOMAIN ups :
                   \E j \in DOMAIN jobs : jobs[j].jobName = ups[m] /\ jobs[j].jobId = deps[m]

\* x, y<-x, z<-x: y and z both depend on x's id alone, x on nothing.
C2_Witness ==
    /\ Len(tasks) = 3
    /\ tasks[2].upstream = <<"a">>
    /\ tasks[3].upstream = <<"a">>
    /\ Len(jobs) = 3
    /\ jobs[1].dependsOn = <<>>
    /\ jobs[2].dependsOn = <<jobs[1].jobId>>
    /\ jobs[3].dependsOn = <<jobs[1].jobId>>

\* C4: a failing backend call makes the run failed, and once an exception
\* was raised no further job is submitted and the run stays failed.
C4_NoSubmissionAfterFailure ==
    [][/\ (raised'.type # None => pc' = "failed")
       /\ (raised.type # None => jobs' = jobs /\ pc' = "failed")]_vars

\* a, b<-a, c<-a, c<-b: b's submission failed after a's; c is not submitted.
C4_Witness ==
    /\ Len(tasks) = 3
    /\ tasks[2].upstream = <<"a">>
    /\ tasks[3].upstream = <<"a", "b">>
    /\ pc = "failed"
    /\ raised = Exception("ClientError", "submit_job")
    /\ i = 2
    /\ Len(jobs) = 1
    /\ jobs[1].jobName = "a"

\* C5: when a backend submit call fails, what is reported to the caller
\* holds the record (node name, backend job id) of every task submitted
\* before the failure.
C5_FailureCarriesRecords ==
    (pc = "failed" /\ raised = Exception("ClientError", "submit_job")) =>
        \A n \in DOMAIN job_ids :
            [node_name |-> n, backend_job_id |-> job_ids[n]] \in FailureReport

(***************************************************************************)
(* Claims on the export run, checked under Spec                            *)
(***************************************************************************)

Batch == backend = "aws-batch"

\* The upstream tasks of n that the filter left out.
AbsentUpstream(n) == Range(upstream[n]) \ Filter(mode)

C6_NoWorkShortCircuits ==
    /\ (Batch /\ Filter(mode) = {}) =>
          /\ remote_name = None
          /\ job_defs = <<>>
          /\ jobs = <<>>
          /\ pc \in {"validate", "export", "loaded", "stopped"}
          /\ raised.type \in {None, "CommanderStop"}
    /\ (pc = "stopped") <=> (raised.type = "CommanderStop")
    /\ (pc = "stopped") => (Batch /\ Filter(mode) = {})

\* A graph of up-to-date tasks exported in incremental mode has stopped.
C6_Witness ==
    /\ pc = "stopped"
    /\ dag # <<>>
    /\ mode = "incremental"
    /\ raised = Exception("CommanderStop", "incremental")

\* Some product of some task of the whole graph is under the project root.
AnyViolation ==
    \E n \in Range(dag) : \E q \in DOMAIN product[n] : UnderProjectRoot(product[n][q])

\* C10 as stated: with either exporter, a product under the project root on
\* any task keeps every task from being submitted.
C10_ViolationStopsAnyBackend == AnyViolation => jobs = <<>>

\* C10 amended: the Airflow exporter validates the whole graph before
\* anything else, and a product under the project root on any task, outdated
\* or not, fails the run with nothing copied and nothing submitted; the AWS
\* Batch exporter's validation checks nothing and never fails a run.
C10_AirflowValidatesWholeGraph ==
    /\ (backend = "airflow" /\ AnyViolation /\ pc # "validate") =>
          /\ pc = "failed"
          /\ raised.type = "ValueError"
          /\ ~copied
          /\ jobs = <<>>
    /\ (backend = "airflow" /\ ~AnyViolation) => raised.type # "ValueError"
    /\ Batch => (raised.type # "ValueError" /\ products_invalid = <<>>)

\* The only product under the project root is that of an up-to-date task, in
\* incremental mode, and the Airflow export failed.
C10_Witness ==
    /\ backend = "airflow"
    /\ mode = "incremental"
    /\ pc = "failed"
    /\ raised.type = "ValueError"
    /\ \E n \in Range(dag) :
          /\ ~needs_execution[n]
          /\ UnderProjectRoot(product[n][1])
          /\ \A m \in Range(dag) \ {n} :
                needs_execution[m] /\ ~UnderProjectRoot(product[m][1])
    /\ Len(dag) >= 2

(***************************************************************************)
(* Claims on _dag_to_airflow, checked under SpecDeclare                    *)
(***************************************************************************)

NoDuplicates(seq) == \A k, m \in DOMAIN seq : seq[k] = seq[m] => k = m

\* The pairs <<task, upstream task>> of the graph.
UpstreamRelation == {e \in Range(dag) \X Range(dag) : e[2] \in Range(upstream[e[1]])}

\* C7: the Airflow DAG returned has exactly one task per task of the graph
\* and exactly one set_upstream per upstream relation: none added, omitted
\* or duplicated.
C7_DeclarePreservesGraph ==
    (pc = "declared") =>
        /\ NoDuplicates(af_tasks)
        /\ Range(af_tasks) = Range(dag)
        /\ NoDuplicates(af_edges)
        /\ Range(af_edges) = UpstreamRelation

\* a, b<-a, c<-a, c<-b: 3 tasks and 3 edges declared.
C7_Witness ==
    /\ pc = "declared"
    /\ dag = <<"a", "b", "c">>
    /\ upstream["b"] = <<"a">>
    /\ upstream["c"] = <<"a", "b">>
    /\ upstream["a"] = <<>>
    /\ Len(af_tasks) = 3
    /\ Len(af_edges) = 3

(***************************************************************************)
(* Claims on AirflowExporter._validate, checked under SpecValidate         *)
(***************************************************************************)

\* Whether string `sub` occurs in string `str`.
Occurs(sub, str) ==
    \E k \in 0..(Len(str) - Len(sub)) : SubSeq(str, k + 1, k + Len(sub)) = sub

\* The characters of a task name.
NameStr(n) == <<n>>

\* C8: when a task's product resolves under the project root, validation
\* raises and the error names that task.
C8_ErrorNamesTask ==
    \A n \in Range(dag) :
        (pc # "validate" /\ \E q \in DOMAIN product[n] : UnderProjectRoot(product[n][q])) =>
            /\ raised.type = "ValueError"
            /\ \E k \in DOMAIN ValidationMessage : Occurs(NameStr(n), ValidationMessage[k])

\* The outputs, <<task index, product index>>, that the check rejects.
Rejected ==
    {o \in (DOMAIN dag) \X (1..2) :
        /\ o[2] \in DOMAIN product[dag[o[1]]]
        /\ UnderProjectRoot(product[dag[o[1]]][o[2]])}

Before(o, r) == o[1] < r[1] \/ (o[1] = r[1] /\ o[2] <= r[2])

\* The m-th rejected output, in task order then product order.
NthRejected(m) ==
    CHOOSE o \in Rejected : Cardinality({r \in Rejected : Before(r, o)}) = m

\* C9: validation looks at every output of every task: with k >= 1 rejected
\* outputs one ValueError is raised whose list holds all k of them in order;
\* with none, validation passes.
C9_AllViolationsReported ==
    (pc # "validate") =>
        /\ (Rejected = {}) => (pc = "export" /\ raised = NoException)
        /\ (Rejected # {}) => (pc = "failed" /\ raised.type = "ValueError")
        /\ Len(products_invalid) = Cardinality(Rejected)
        /\ \A m \in DOMAIN products_invalid :
               LET o == NthRejected(m)
               IN  products_invalid[m] = PathStr(product[dag[o[1]]][o[2]])

\* Three rejected outputs on two tasks, a passing task between them.
C9_Witness ==
    /\ pc = "failed"
    /\ Len(dag) = 3
    /\ product["a"] = <<InsideRelative, InsideAbsolute>>
    /\ product["b"] = <<ViaParent>>
    /\ product["c"] = <<InsideAbsolute>>
    /\ products_invalid = <<PathStr(InsideRelative), PathStr(InsideAbsolute),
                            PathStr(InsideAbsolute)>>

(***************************************************************************)
(* Claims on load_tasks, checked under SpecOrder and SpecFilter            *)
(***************************************************************************)

\* The names of tasks, in order: the order in which submit_dag processes them.
ProcessingOrder == [k \in DOMAIN tasks |-> tasks[k].name]

\* Every task of `order` comes after all of its upstream tasks.
AfterUpstream(order) ==
    \A k \in DOMAIN order :
        \A u \in Range(upstream[order[k]]) : \E j \in 1..(k - 1) : order[j] = u

\* Whenever a task of `order` had no pending upstream when an earlier one
\* was taken, the earlier one was inserted in the graph before it.
TiesByInsertion(order) ==
    \A k, m \in DOMAIN order :
        (k < m /\ Range(upstream[order[m]]) \subseteq {order[j] : j \in 1..(k - 1)}) =>
            Pos(order[k]) < Pos(order[m])

\* C11: on an acyclic graph the processing order is a permutation of the
\* graph's tasks in which every task comes after its upstream tasks, ties
\* among tasks with no pending upstream go to the task inserted first, and
\* the order is determined by the graph: no other permutation has these
\* properties.
C11_TopologicalOrder ==
    (pc = "loaded") =>
        /\ Len(ProcessingOrder) = Len(dag)
        /\ Range(ProcessingOrder) = Range(dag)
        /\ NoDuplicates(ProcessingOrder)
        /\ AfterUpstream(ProcessingOrder)
        /\ TiesByInsertion(ProcessingOrder)
        /\ \A p \in InsertionOrders(Len(dag)) :
               (AfterUpstream(p) /\ TiesByInsertion(p)) => p = ProcessingOrder

\* Tasks inserted c, b, a with c<-a: b and a are ready together and b, the
\* one inserted first, is taken first although a sorts before it.
C11_Witness ==
    /\ pc = "loaded"
    /\ dag = <<"c", "b", "a">>
    /\ upstream["c"] = <<"a">>
    /\ upstream["b"] = <<>>
    /\ upstream["a"] = <<>>
    /\ ProcessingOrder = <<"b", "a", "c">>

\* The tasks that need execution.
Outdated == {n \in Range(dag) : needs_execution[n]}

\* C12: in mode "all" the tasks load_tasks returns are all the tasks of the
\* graph, whether they need execution or not; in mode "incremental" they are
\* exactly the tasks that need execution: a task that does not is left out
\* even when a task upstream or downstream of it is kept.
C12_FilterByMode ==
    (pc # "export") =>
        /\ pc = "loaded"
        /\ NoDuplicates(ProcessingOrder)
        /\ (mode = "all") => (TaskNames = Range(dag))
        /\ (mode = "incremental") => (TaskNames = Outdated)

\* b<-a, c<-b with only b outdated, in incremental mode: b alone is kept,
\* without its ancestor a and its descendant c.
C12_Witness ==
    /\ pc = "loaded"
    /\ mode = "incremental"
    /\ dag = <<"a", "b", "c">>
    /\ upstream["b"] = <<"a">>
    /\ upstream["c"] = <<"b">>
    /\ Outdated = {"b"}
    /\ ProcessingOrder = <<"b">>

(***************************************************************************)
(* Further claims on submit_dag, checked under SpecSubmit                  *)
(***************************************************************************)

\* C13: when submit_dag has submitted every task (there was at least one)
\* and returns, what it returns to its caller is a mapping whose keys are
\* exactly the names of the submitted tasks and whose value for each name is
\* the id the backend returned for that task's job.
C13_ReturnsJobIds ==
    (pc = "returned" /\ tasks # <<>>) =>
        /\ ReturnValue.is_mapping
        /\ {item[1] : item \in ReturnValue.items} = TaskNames
        /\ \A k \in DOMAIN jobs :
               <<jobs[k].jobName, jobs[k].jobId>> \in ReturnValue.items

\* Every entry of job_ids is the id of a job the backend accepted for that
\* task.
EntriesOfAcceptedJobs ==
    \A n \in DOMAIN job_ids :
        \E k \in DOMAIN jobs : jobs[k].jobName = n /\ jobs[k].jobId = job_ids[n]

\* C14: job_ids is append-only and written once per task: an entry is there
\* only for a task whose job the backend has accepted, with the id the
\* backend returned, and no step of the run removes an entry or changes its
\* value.
C14_JobIdsAppendOnly ==
    /\ []EntriesOfAcceptedJobs
    /\ [][\A n \in DOMAIN job_ids :
              n \in DOMAIN job_ids' /\ job_ids'[n] = job_ids[n]]_vars

\* a, b<-a, c<-a, c<-b submitted: three entries, written one after the other.
C14_Witness ==
    /\ pc = "returned"
    /\ Len(tasks) = 3
    /\ tasks[3].upstream = <<"a", "b">>
    /\ DOMAIN job_ids = {"a", "b", "c"}
    /\ job_ids["a"] # job_ids["b"] /\ job_ids["b"] # job_ids["c"]

\* C15: client.submit_job is called at most once for any task, whether the
\* call succeeded or failed, so the backend holds at most one job per task;
\* when submit_dag returns it was called exactly once for each task.
C15_SubmittedAtMostOnce ==
    /\ NoDuplicates(SubmitCalls)
    /\ Range(SubmitCalls) \subseteq TaskNames
    /\ (pc = "returned") =>
          /\ Range(SubmitCalls) = TaskNames
          /\ Len(jobs) = Len(tasks)

\* a, b<-a, c<-a, c<-b: a was submitted, b's call failed and is not made
\* again, c's is never made.
C15_Witness ==
    /\ pc = "failed"
    /\ Len(tasks) = 3
    /\ tasks[2].upstream = <<"a">>
    /\ tasks[3].upstream = <<"a", "b">>
    /\ SubmitCalls = <<"a", "b">>
    /\ Len(jobs) = 1

(***************************************************************************)
(* Claims on the run's progress, checked under FairRun                     *)
(***************************************************************************)

\* The orchestrator's state at each position of the run; a run stopped for
\* lack of tasks has ended well.
RunState ==
    CASE pc = "validate" -> "Validating"
      [] pc \in {"export", "loaded"} -> "Filtering"
      [] pc \in {"register", "runs_update", "loop", "returned"} -> "Submitting"
      [] pc \in {"done", "stopped"} -> "Done"
      [] pc = "failed" -> "Failed"

Transitions ==
    {<<"Validating", "Filtering">>, <<"Filtering", "Submitting">>,
     <<"Filtering", "Done">>, <<"Submitting", "Done">>,
     <<"Validating", "Failed">>, <<"Filtering", "Failed">>, <<"Submitting", "Failed">>}
    \cup {<<st, st>> : st \in {"Validating", "Filtering", "Submitting"}}

\* A step of the run keeps the orchestrator's state or makes one of its
\* transitions.
InOrder == <<RunState, RunState'>> \in Transitions

\* The tasks to submit cannot all be ordered after their upstream tasks.
NoProgress ==
    Batch /\ Len(TopologicalOrder(Filter(mode))) < Cardinality(Filter(mode))

\* C16: every run ends, in Done or in Failed; its state only moves along
\* Validating -> Filtering -> Submitting -> Done, or to Failed, and never
\* leaves Done or Failed; an error always means Failed; when the upstream
\* relation of the tasks to submit is cyclic, so that their order cannot be
\* completed, the run fails before anything is built or submitted; and no
\* job is ever submitted before a job for each of its upstream tasks among
\* the tasks to submit.
C16_RunTerminatesInOrder ==
    /\ <>(RunState \in {"Done", "Failed"})
    /\ [][InOrder]_vars
    /\ []((raised.type \notin {None, "CommanderStop"}) <=> (RunState = "Failed"))
    /\ [](NoProgress =>
             /\ pc \in {"validate", "export", "failed"}
             /\ remote_name = None /\ job_defs = <<>> /\ jobs = <<>>)
    /\ [](\A k \in DOMAIN jobs :
             \A u \in Range(Restrict(jobs[k].jobName, Filter(mode))) :
                 \E j \in 1..(k - 1) : jobs[j].jobName = u)

\* a<-b and b<-a, both to submit: the run failed at the ordering.
C16_Witness ==
    /\ Batch
    /\ dag = <<"a", "b">>
    /\ upstream["a"] = <<"b">>
    /\ upstream["b"] = <<"a">>
    /\ Filter(mode) = {"a", "b"}
    /\ pc = "failed"
    /\ raised = Exception("GraphError", "no progress")

(***************************************************************************)
(* Further claims on the export run, checked under Spec                    *)
(***************************************************************************)

\* C17: a run registers the job definition at most once, and exactly once
\* before any job is submitted; its image is the reference docker.build
\* returned; every job submitted names the jobDefinitionArn that
\* registration returned; when the registration fails nothing is registered
\* and no job is submitted.
C17_RegisteredOnceBeforeJobs ==
    /\ Len(job_defs) <= 1
    /\ ((Batch /\ pc \in {"runs_update", "loop", "returned", "done"}) \/ jobs # <<>>) =>
          Len(job_defs) = 1
    /\ \A d \in DOMAIN job_defs :
          remote_name # None /\ job_defs[d].image = remote_name
    /\ \A k \in DOMAIN jobs :
          jd.jobDefinitionArn # None /\ jobs[k].jobDefinition = jd.jobDefinitionArn
    /\ (raised = Exception("ClientError", "register_job_definition")) =>
          (job_defs = <<>> /\ jobs = <<>> /\ pc = "failed")

\* Two tasks submitted in a run that ended well: one job definition, with
\* the image that was built.
C17_Witness ==
    /\ Batch
    /\ pc = "done"
    /\ Len(jobs) = 2
    /\ job_defs = <<[jobDefinitionName |-> "pkg", image |-> "repository/pkg:latest"]>>
    /\ jobs[1].jobDefinition = "arn-pkg"
    /\ jobs[2].jobDefinition = "arn-pkg"

(***************************************************************************)
(* Claim on the command of a job, checked under SpecSubmit                 *)
(***************************************************************************)

\* How many items of list `seq` are `item`.
Count(item, seq) == Cardinality({k \in DOMAIN seq : seq[k] = item})

\* C18: the command of the job of task N names N exactly once, holds N's
\* task id exactly once when run tracking is on, holds at most one
\* "--github-number", and ends with the shared CLI arguments, whether a
\* github number is present or not.
C18_CommandRunsTaskOnce ==
    \A k \in DOMAIN jobs :
        LET name == jobs[k].jobName
            command == jobs[k].command
        IN  /\ Count(name, command) = 1
            /\ out.tracked => Count(TaskId(name), command) = 1
            /\ Count("--github-number", command) <= 1
            /\ SubSeq(command, Len(command) - Len(CliArgs) + 1, Len(command)) = CliArgs

(***************************************************************************)
(* Further claim on AirflowExporter._validate, checked under SpecValidate  *)
(***************************************************************************)

\* The path resolves to the project root or to a location below it: the
\* components of the project root are the first components of the resolved
\* path.
NestedUnderProjectRoot(path) ==
    LET parts == Normalize(<<>>, IF path.absolute THEN path.parts
                                 ELSE ProjectRoot \o path.parts)
    IN  /\ Len(ProjectRoot) <= Len(parts)
        /\ SubSeq(parts, 1, Len(ProjectRoot)) = ProjectRoot

\* C19: when no product of any task resolves to a location nested under the
\* project root, validation passes without error, also when a product lies
\* in a sibling directory whose path begins with the characters of the
\* project root (root /w/p, product /w/p2/o).
C19_OnlyNestedRejected ==
    (/\ pc # "validate"
     /\ \A n \in Range(dag) : \A q \in DOMAIN product[n] :
            ~NestedUnderProjectRoot(product[n][q])) =>
        /\ pc = "export"
        /\ raised = NoException
        /\ products_invalid = <<>>

====
